---- MODULE Spec2Model ----
(***************************************************************************)
(* Chan-theory bar pipeline: inclusion merging (kline_merger.py), fractal  *)
(* detection and pen construction (kline_visualizer.py), and the loaders   *)
(* of the tool (chan_kline_tool.py).                                       *)
(*                                                                         *)
(* Prices are Python floats that the pipeline only compares and selects    *)
(* with max/min; they are modelled as small integers (the loaders, which   *)
(* can produce nan, have their own float values).  Sequences are           *)
(* 1-based here, 0-based in the source: list position p in the source is   *)
(* position p+1 here, while the bar index stored in a Fractal is kept as   *)
(* the source's 0-based value.                                             *)
(***************************************************************************)
EXTENDS Integers, Sequences, FiniteSets, TLC

VARIABLES
    klines,           \* merge_klines: the argument `klines`
    pc,               \* merge_klines: position in the function
    i,                \* merge_klines: loop variable (1-based position of the next raw bar)
    current_merged,   \* merge_klines: local `current_merged`
    merged_result,    \* merge_klines: local `merged_result`, the returned list at pc = "done"
    merged_klines,    \* detect_fractals: the argument `merged_klines`
    dpc,              \* detect_fractals: position in the function
    self_fractals,    \* KLineVisualizer.fractals
    self_pens,        \* KLineVisualizer.pens
    self_used_fractals, \* KLineVisualizer.used_fractals as the renderers read it
    fractals,         \* calculate_pens: the list it works on (argument, or self.fractals)
    pens,             \* calculate_pens: local `pens`
    used_fractals,    \* calculate_pens: local `used_fractals`
    start_index,      \* calculate_pens: local `start_index` of the start search (1-based)
    current_fractal,  \* calculate_pens: local `current_fractal` (None or a Fractal)
    ppc,              \* calculate_pens: position in the function
    ret,              \* calculate_pens: the returned list once ppc = "done"
    original_klines,  \* ChanKLineTool.original_klines
    load_ret,         \* ChanKLineTool: what the last load_from_data / load_from_excel returned
    trend_current_k,  \* _determine_trend_direction: the argument `current_k`
    trend_next_k,     \* _determine_trend_direction: the argument `next_k`
    trend_merged,     \* _determine_trend_direction: the argument `merged_klines`
    trend_ret,        \* _determine_trend_direction: the returned direction, NoneStr before the return
    tool_merged_klines, \* ChanKLineTool.merged_klines
    merge_ret,        \* ChanKLineTool: what the last merge_klines of the tool returned
    stats,            \* ChanKLineTool: what the last get_statistics returned, None before the first
    ind_fractal1,     \* _has_independent_klines_between: the argument `fractal1`
    ind_fractal2,     \* _has_independent_klines_between: the argument `fractal2`
    ind_ret,          \* _has_independent_klines_between: the returned bool, NoneStr before the return
    find_fractals,    \* _find_valid_pen_end: the argument `fractals`
    find_start_index, \* _find_valid_pen_end: the argument `start_index` (1-based)
    find_pc,          \* _find_valid_pen_end: position in the function
    find_ret,         \* _find_valid_pen_end: the returned Fractal or None
    merger_fractals,  \* KLineMerger._detect_fractals: the returned list
    mdpc              \* KLineMerger._detect_fractals: position in the function

mergeVars == <<klines, pc, i, current_merged, merged_result>>
detectVars == <<merged_klines, dpc>>
penVars == <<fractals, pens, used_fractals, start_index, current_fractal, ppc, ret>>
selfVars == <<self_fractals, self_pens, self_used_fractals>>
toolVars == <<original_klines, load_ret>>
trendVars == <<trend_current_k, trend_next_k, trend_merged, trend_ret>>
statsVars == <<tool_merged_klines, merge_ret, stats>>
indVars == <<ind_fractal1, ind_fractal2, ind_ret>>
findVars == <<find_fractals, find_start_index, find_pc, find_ret>>
mergerDetectVars == <<merger_fractals, mdpc>>
helperVars == <<indVars, findVars, mergerDetectVars>>
otherVars == <<toolVars, trendVars, statsVars, helperVars>>
vars == <<klines, pc, i, current_merged, merged_result, merged_klines, dpc,
          self_fractals, self_pens, self_used_fractals, fractals, pens,
          used_fractals, start_index, current_fractal, ppc, ret,
          original_klines, load_ret,
          trend_current_k, trend_next_k, trend_merged, trend_ret,
          tool_merged_klines, merge_ret, stats,
          ind_fractal1, ind_fractal2, ind_ret,
          find_fractals, find_start_index, find_pc, find_ret,
          merger_fractals, mdpc>>

\* Python's None where an object is expected (a record, so that it compares with records).
None == [none |-> TRUE]

\* Python's None where a string is expected (Optional[str]).
NoneStr == "None"

(***************************************************************************)
(* Bounds of the model.                                                    *)
(***************************************************************************)
MaxBars == 4        \* longest raw bar list given to merge_klines
MaxPrice == 4       \* prices of raw bars are 1..MaxPrice
TBars == 3          \* longest raw bar list when timestamps are free
MaxTime == 3        \* timestamps are 1..MaxTime when they are free
FBars == 5          \* longest bar list given to detect_fractals
FPrice == 3         \* prices of the bars given to detect_fractals
MaxIndex == 10      \* largest bar index of a fractal given to calculate_pens
MaxFractals == 4    \* longest fractal list given to calculate_pens
VisIndex == 5       \* largest bar index of a fractal, repeated calls on one visualizer
VisFractals == 2    \* longest fractal list, repeated calls on one visualizer
VisBars == 3        \* longest bar list, repeated calls on one visualizer
PBars == 3          \* longest list of arbitrary raw bars given to the whole pipeline
PPrice == 3         \* prices of those bars are 1..PPrice
PWalk == 8          \* longest list of one-level-step bars given to the whole pipeline
PLevels == 5        \* price levels of those bars are 1..PLevels
LoadRows == 2       \* longest list of records given to load_from_data / load_from_excel
TrendPrice == 3     \* prices of the bars given to _determine_trend_direction
TrendBars == 2      \* longest list of finalized bars given to _determine_trend_direction
ToolRows == 2       \* longest list of records given to load_from_data before merging
DBars == 4          \* longest bar list given to both fractal detectors
DPrice == 3         \* prices of the bars given to both fractal detectors
ChainIndex == 10    \* largest bar index of a fractal, calculate_pens run to its return
ChainFractals == 4  \* longest fractal list, calculate_pens run to its return
FindIndex == 9      \* largest bar index of a fractal given to _find_valid_pen_end
FindFractals == 6   \* longest fractal list given to _find_valid_pen_end
IndIndex == 6       \* largest bar index of a fractal given to _has_independent_klines_between

\* Prices where only the order of two prices matters (timestamp runs, pen directions).
TwoPrices == 1..2

(***************************************************************************)
(* kline_data.py                                                           *)
(***************************************************************************)
\* KLine.__post_init__: construction raises when high < low.
KLineValid(high, low) == ~(high < low)

\* The KLine values with the given timestamps and prices that can be constructed.
KLines(times, prices) ==
    { k \in [timestamp : times, high : prices, low : prices] : KLineValid(k.high, k.low) }

\* The bars of a list put in time order: the bar at position j gets timestamp j.
Timestamped(f) ==
    [j \in 1..Len(f) |-> [timestamp |-> j, high |-> f[j].high, low |-> f[j].low]]

\* ks is a list of at most maxLen raw bars in time order with the given prices.
IsOrderedKlineList(ks, maxLen, prices) ==
    \E len \in 0..maxLen : \E f \in [1..len -> KLines({0}, prices)] : ks = Timestamped(f)

\* ks is a list of at most maxLen raw bars with the given timestamps and prices.
IsKlineList(ks, maxLen, times, prices) ==
    \E len \in 0..maxLen : ks \in [1..len -> KLines(times, prices)]

Max(a, b) == IF a >= b THEN a ELSE b
Min(a, b) == IF a <= b THEN a ELSE b

(***************************************************************************)
(* kline_merger.py                                                         *)
(***************************************************************************)
\* KLineMerger._kline_to_merged
KlineToMerged(kline) ==
    [start_time |-> kline.timestamp, end_time |-> kline.timestamp,
     high |-> kline.high, low |-> kline.low, original_count |-> 1]

\* Faulty variant: the left-to-right test uses strict comparisons
HasInclusionRelationshipStrict(k1, k2) ==
    IF k1.high > k2.high /\ k1.low < k2.low THEN <<TRUE, "k1_contains_k2">>
    ELSE IF k2.high >= k1.high /\ k2.low <= k1.low THEN <<TRUE, "k2_contains_k1">>
    ELSE <<FALSE, "none">>

\* Faulty variant: the right-to-left containment is tested first
HasInclusionRelationshipRightFirst(k1, k2) ==
    IF k2.high >= k1.high /\ k2.low <= k1.low THEN <<TRUE, "k2_contains_k1">>
    ELSE IF k1.high >= k2.high /\ k1.low <= k2.low THEN <<TRUE, "k1_contains_k2">>
    ELSE <<FALSE, "none">>

\* KLineMerger._has_inclusion_relationship: (has_inclusion, inclusion_type)
HasInclusionRelationship(k1, k2) ==
    LET k1_contains_k2 == k1.high >= k2.high /\ k1.low <= k2.low
        k2_contains_k1 == k2.high >= k1.high /\ k2.low <= k1.low
    IN  IF k1_contains_k2 THEN <<TRUE, "k1_contains_k2">>
        ELSE IF k2_contains_k1 THEN <<TRUE, "k2_contains_k1">>
        ELSE <<FALSE, "none">>

\* Faulty variant: the merged bar keeps only the count of the left bar
MergeInclusionRelationshipLeftCount(k1, k2, trend_direction) ==
    [start_time |-> k1.start_time, end_time |-> k2.end_time,
     high |-> IF trend_direction = "up" THEN Max(k1.high, k2.high) ELSE Min(k1.high, k2.high),
     low |-> IF trend_direction = "up" THEN Max(k1.low, k2.low) ELSE Min(k1.low, k2.low),
     original_count |-> k1.original_count]

\* Faulty variant: an upward merge keeps the lower low, a downward merge the higher high
MergeInclusionRelationshipOuter(k1, k2, trend_direction) ==
    [start_time |-> k1.start_time, end_time |-> k2.end_time,
     high |-> Max(k1.high, k2.high),
     low |-> Min(k1.low, k2.low),
     original_count |-> k1.original_count + k2.original_count]

\* Faulty variant: the merged bar keeps the end time of the left bar
MergeInclusionRelationshipKeepEnd(k1, k2, trend_direction) ==
    [start_time |-> k1.start_time, end_time |-> k1.end_time,
     high |-> IF trend_direction = "up" THEN Max(k1.high, k2.high) ELSE Min(k1.high, k2.high),
     low |-> IF trend_direction = "up" THEN Max(k1.low, k2.low) ELSE Min(k1.low, k2.low),
     original_count |-> k1.original_count + k2.original_count]

\* KLineMerger._merge_inclusion_relationship
MergeInclusionRelationship(k1, k2, trend_direction) ==
    LET merged_high == IF trend_direction = "up" THEN Max(k1.high, k2.high)
                       ELSE Min(k1.high, k2.high)
        merged_low == IF trend_direction = "up" THEN Max(k1.low, k2.low)
                      ELSE Min(k1.low, k2.low)
    IN  [start_time |-> k1.start_time, end_time |-> k2.end_time,
         high |-> merged_high, low |-> merged_low,
         original_count |-> k1.original_count + k2.original_count]

\* Faulty variant: the candidate is compared with the last finalized bar
DetermineTrendDirectionFromNext(current_k, next_k, merged) ==
    IF Len(merged) = 0 THEN "up"
    ELSE LET prev_k == merged[Len(merged)]
         IN  IF next_k.high >= prev_k.high THEN "up"
             ELSE IF next_k.low <= prev_k.low THEN "down"
             ELSE IF next_k.high > prev_k.high THEN "up"
             ELSE "down"

\* Faulty variant: without history the direction is "down"
DetermineTrendDirectionDefaultDown(current_k, next_k, merged) ==
    IF Len(merged) = 0 THEN "down"
    ELSE LET prev_k == merged[Len(merged)]
         IN  IF current_k.high >= prev_k.high THEN "up"
             ELSE IF current_k.low <= prev_k.low THEN "down"
             ELSE IF current_k.high > prev_k.high THEN "up"
             ELSE "down"

\* Faulty variant: when neither comparison holds the direction is "up"
DetermineTrendDirectionFallbackUp(current_k, next_k, merged) ==
    IF Len(merged) = 0 THEN "up"
    ELSE LET prev_k == merged[Len(merged)]
         IN  IF current_k.high >= prev_k.high THEN "up"
             ELSE IF current_k.low <= prev_k.low THEN "down"
             ELSE "up"

\* KLineMerger._determine_trend_direction
DetermineTrendDirection(current_k, next_k, merged) ==
    IF Len(merged) = 0 THEN "up"
    ELSE LET prev_k == merged[Len(merged)]
         IN  IF current_k.high >= prev_k.high THEN "up"
             ELSE IF current_k.low <= prev_k.low THEN "down"
             ELSE IF current_k.high > prev_k.high THEN "up"
             ELSE "down"

\* Faulty variant: on the no-merge branches the candidate is appended and the current bar kept
LoopBodySwapped(current, result, next_kline) ==
    LET inclusion == HasInclusionRelationship(current, next_kline)
    IN  IF inclusion[1] /\ inclusion[2] = "k1_contains_k2"
        THEN [current_merged |->
                 MergeInclusionRelationship(current, next_kline,
                     DetermineTrendDirection(current, next_kline, result)),
              merged_result |-> result]
        ELSE [current_merged |-> current, merged_result |-> Append(result, next_kline)]

\* Faulty variant: the merge is done when the candidate contains current, not the reverse
LoopBodyMergeRight(current, result, next_kline) ==
    LET inclusion == HasInclusionRelationship(current, next_kline)
    IN  IF inclusion[1] /\ inclusion[2] = "k2_contains_k1"
        THEN [current_merged |->
                 MergeInclusionRelationship(current, next_kline,
                     DetermineTrendDirection(current, next_kline, result)),
              merged_result |-> result]
        ELSE [current_merged |-> next_kline, merged_result |-> Append(result, current)]

\* KLineMerger.merge_klines, the body of the for loop: one raw bar, already
\* converted by _kline_to_merged, is merged into the current bar or replaces it.
LoopBody(current, result, next_kline) ==
    LET inclusion == HasInclusionRelationship(current, next_kline)
        has_inclusion == inclusion[1]
        inclusion_type == inclusion[2]
    IN  IF has_inclusion
        THEN IF inclusion_type = "k1_contains_k2"
             THEN LET trend_direction ==
                          DetermineTrendDirection(current, next_kline, result)
                  IN  [current_merged |->
                           MergeInclusionRelationship(current, next_kline, trend_direction),
                       merged_result |-> result]
             ELSE [current_merged |-> next_kline, merged_result |-> Append(result, current)]
        ELSE [current_merged |-> next_kline, merged_result |-> Append(result, current)]

RECURSIVE MergeLoop(_, _, _, _)
\* KLineMerger.merge_klines, the for loop from position n on and the final append.
MergeLoop(ks, n, current, result) ==
    IF n > Len(ks) THEN Append(result, current)
    ELSE LET r == LoopBody(current, result, KlineToMerged(ks[n]))
         IN  MergeLoop(ks, n + 1, r.current_merged, r.merged_result)

\* KLineMerger.merge_klines as a function of its argument.
MergeKlines(ks) ==
    IF Len(ks) = 0 THEN <<>>
    ELSE IF Len(ks) = 1 THEN <<KlineToMerged(ks[1])>>
    ELSE MergeLoop(ks, 2, KlineToMerged(ks[1]), <<>>)

\* Faulty variant: a single bar is answered like no bar, with the empty list
MergeStartDropsSingle ==
    /\ pc = "start"
    /\ IF Len(klines) <= 1
       THEN /\ merged_result' = <<>>
            /\ pc' = "done"
            /\ UNCHANGED <<i, current_merged>>
       ELSE /\ merged_result' = <<>>
            /\ current_merged' = KlineToMerged(klines[1])
            /\ i' = 2
            /\ pc' = "loop"
    /\ UNCHANGED <<otherVars, klines, detectVars, selfVars, penVars>>

\* merge_klines is entered: the early returns, or the first bar becomes current.
MergeStart ==
    /\ pc = "start"
    /\ IF Len(klines) = 0
       THEN /\ merged_result' = <<>>
            /\ pc' = "done"
            /\ UNCHANGED <<i, current_merged>>
       ELSE IF Len(klines) = 1
       THEN /\ merged_result' = <<KlineToMerged(klines[1])>>
            /\ pc' = "done"
            /\ UNCHANGED <<i, current_merged>>
       ELSE /\ merged_result' = <<>>
            /\ current_merged' = KlineToMerged(klines[1])
            /\ i' = 2
            /\ pc' = "loop"
    /\ UNCHANGED <<otherVars, klines, detectVars, selfVars, penVars>>

\* One iteration of the for loop, on the branch the inclusion test selects.
LoopStep(branch) ==
    /\ pc = "loop"
    /\ i <= Len(klines)
    /\ LET next_kline == KlineToMerged(klines[i])
           r == LoopBody(current_merged, merged_result, next_kline)
       IN  /\ HasInclusionRelationship(current_merged, next_kline)[2] = branch
           /\ current_merged' = r.current_merged
           /\ merged_result' = r.merged_result
    /\ i' = i + 1
    /\ UNCHANGED <<otherVars, klines, pc, detectVars, selfVars, penVars>>

\* current contains the candidate: the candidate is merged into current.
MergeContained == LoopStep("k1_contains_k2")

\* the candidate contains current: current is kept as it is and finalized.
KeepContaining == LoopStep("k2_contains_k1")

\* no inclusion: current is finalized.
NoInclusion == LoopStep("none")

\* The loop is over: the last current bar is appended and the list returned.
MergeFinish ==
    /\ pc = "loop"
    /\ i > Len(klines)
    /\ merged_result' = Append(merged_result, current_merged)
    /\ pc' = "done"
    /\ UNCHANGED <<otherVars, klines, i, current_merged, detectVars, selfVars, penVars>>

MergeNext == MergeStart \/ MergeContained \/ KeepContaining \/ NoInclusion \/ MergeFinish

\* Faulty variant: a top may share its high with the bar after it
MergerDetectFractalTypeTie(ks, index) ==
    IF index = 0 \/ index >= Len(ks) - 1 THEN NoneStr
    ELSE LET prev_k == ks[index]
             curr_k == ks[index + 1]
             next_k == ks[index + 2]
         IN  IF /\ curr_k.high > prev_k.high /\ curr_k.high >= next_k.high
                /\ curr_k.low > prev_k.low /\ curr_k.low > next_k.low
             THEN "top"
             ELSE IF /\ curr_k.high < prev_k.high /\ curr_k.high < next_k.high
                     /\ curr_k.low < prev_k.low /\ curr_k.low < next_k.low
             THEN "bottom"
             ELSE NoneStr

\* KLineMerger._detect_fractal_type; index is the source's 0-based bar index,
\* the bar with index p being at position p + 1 of ks.
MergerDetectFractalType(ks, index) ==
    IF index = 0 \/ index >= Len(ks) - 1 THEN NoneStr
    ELSE LET prev_k == ks[index]
             curr_k == ks[index + 1]
             next_k == ks[index + 2]
         IN  IF /\ curr_k.high > prev_k.high /\ curr_k.high > next_k.high
                /\ curr_k.low > prev_k.low /\ curr_k.low > next_k.low
             THEN "top"
             ELSE IF /\ curr_k.high < prev_k.high /\ curr_k.high < next_k.high
                     /\ curr_k.low < prev_k.low /\ curr_k.low < next_k.low
             THEN "bottom"
             ELSE NoneStr

RECURSIVE MergerDetectFractalsFrom(_, _)
\* KLineMerger._detect_fractals, the for loop from bar index n on; an entry
\* is the tuple (i, fractal_type, merged_klines[i]).
MergerDetectFractalsFrom(ks, n) ==
    IF n > Len(ks) - 2 THEN <<>>
    ELSE LET fractal_type == MergerDetectFractalType(ks, n)
         IN  (IF fractal_type # NoneStr THEN << <<n, fractal_type, ks[n + 1]>> >>
              ELSE <<>>) \o MergerDetectFractalsFrom(ks, n + 1)

\* KLineMerger._detect_fractals: the list it returns.
MergerDetectFractals(ks) == MergerDetectFractalsFrom(ks, 1)

\* KLineMerger._detect_fractals runs on the list it is given and returns.
MergerDetectFractalsRun ==
    /\ mdpc = "start"
    /\ merger_fractals' = MergerDetectFractals(merged_klines)
    /\ mdpc' = "done"
    /\ UNCHANGED <<mergeVars, detectVars, selfVars, penVars, toolVars, trendVars, statsVars,
                   indVars, findVars>>

\* The compressed bars with the given prices (times and counts are not read
\* by _determine_trend_direction).
TrendBarsOver(prices) == { KlineToMerged(k) : k \in KLines({0}, prices) }

\* _determine_trend_direction is called on its own and returns.
DetermineTrendDirectionCall ==
    /\ trend_current_k # None
    /\ trend_ret = NoneStr
    /\ trend_ret' = DetermineTrendDirection(trend_current_k, trend_next_k, trend_merged)
    /\ UNCHANGED <<mergeVars, detectVars, selfVars, penVars, toolVars, statsVars,
                   helperVars, trend_current_k, trend_next_k, trend_merged>>

(***************************************************************************)
(* kline_visualizer.py                                                     *)
(*                                                                         *)
(* A Fractal is identified by its bar index: the lists the pen builder     *)
(* works on have strictly increasing indices, so equal records are the     *)
(* same object.  The fields kline and time of a Fractal and the times of   *)
(* a Pen are read by the renderers only and are not carried.               *)
(***************************************************************************)
\* Fractal.__init__
Fractal(index, fractal_type, kline) ==
    [index |-> index, type |-> fractal_type,
     price |-> IF fractal_type = "top" THEN kline.high ELSE kline.low]

\* Faulty variant: equal prices give the direction "up"
PenDirectionTie(start_fractal, end_fractal) ==
    [start_fractal |-> start_fractal, end_fractal |-> end_fractal,
     start_price |-> start_fractal.price, end_price |-> end_fractal.price,
     direction |-> IF end_fractal.price >= start_fractal.price THEN "up" ELSE "down"]

\* Pen.__init__
Pen(start_fractal, end_fractal) ==
    [start_fractal |-> start_fractal, end_fractal |-> end_fractal,
     start_price |-> start_fractal.price, end_price |-> end_fractal.price,
     direction |-> IF end_fractal.price > start_fractal.price THEN "up" ELSE "down"]

\* Faulty variant: the top test accepts a tie with the next bar
DetectFractalTypeTie(ks, index) ==
    IF index = 0 \/ index >= Len(ks) - 1 THEN NoneStr
    ELSE LET prev_k == ks[index]
             curr_k == ks[index + 1]
             next_k == ks[index + 2]
         IN  IF /\ curr_k.high > prev_k.high /\ curr_k.high >= next_k.high
                /\ curr_k.low > prev_k.low /\ curr_k.low > next_k.low
             THEN "top"
             ELSE IF /\ curr_k.high < prev_k.high /\ curr_k.high < next_k.high
                     /\ curr_k.low < prev_k.low /\ curr_k.low < next_k.low
             THEN "bottom"
             ELSE NoneStr

\* Faulty variant: every comparison admits equal prices
DetectFractalTypeNonStrict(ks, index) ==
    IF index = 0 \/ index >= Len(ks) - 1 THEN NoneStr
    ELSE LET prev_k == ks[index]
             curr_k == ks[index + 1]
             next_k == ks[index + 2]
         IN  IF /\ curr_k.high >= prev_k.high /\ curr_k.high >= next_k.high
                /\ curr_k.low >= prev_k.low /\ curr_k.low >= next_k.low
             THEN "top"
             ELSE IF /\ curr_k.high <= prev_k.high /\ curr_k.high <= next_k.high
                     /\ curr_k.low <= prev_k.low /\ curr_k.low <= next_k.low
             THEN "bottom"
             ELSE NoneStr

\* KLineVisualizer._detect_fractal_type; index is the source's 0-based bar
\* index, the bar with index p being at position p + 1 of ks.
DetectFractalType(ks, index) ==
    IF index = 0 \/ index >= Len(ks) - 1 THEN NoneStr
    ELSE LET prev_k == ks[index]
             curr_k == ks[index + 1]
             next_k == ks[index + 2]
         IN  IF /\ curr_k.high > prev_k.high /\ curr_k.high > next_k.high
                /\ curr_k.low > prev_k.low /\ curr_k.low > next_k.low
             THEN "top"
             ELSE IF /\ curr_k.high < prev_k.high /\ curr_k.high < next_k.high
                     /\ curr_k.low < prev_k.low /\ curr_k.low < next_k.low
             THEN "bottom"
             ELSE NoneStr

RECURSIVE DetectFractalsFrom(_, _)
\* KLineVisualizer.detect_fractals, the for loop from bar index n on.
DetectFractalsFrom(ks, n) ==
    IF n > Len(ks) - 2 THEN <<>>
    ELSE LET fractal_type == DetectFractalType(ks, n)
         IN  (IF fractal_type # NoneStr THEN <<Fractal(n, fractal_type, ks[n + 1])>>
              ELSE <<>>) \o DetectFractalsFrom(ks, n + 1)

\* KLineVisualizer.detect_fractals: the list it returns and stores in self.fractals.
DetectFractals(ks) == DetectFractalsFrom(ks, 1)

\* Faulty variant: a fractal occupies its own bar only
HasIndependentKlinesBetweenNarrow(fractal1, fractal2) ==
    LET lo == Min(fractal1.index, fractal2.index)
        hi == Max(fractal1.index, fractal2.index)
        fractal1_range == {fractal1.index}
        fractal2_range == {fractal2.index}
        independent_klines ==
            { k_index \in (lo + 1)..(hi - 1) :
                k_index \notin fractal1_range /\ k_index \notin fractal2_range }
    IN  IF hi - lo <= 2 THEN FALSE
        ELSE Cardinality(independent_klines) >= 1

\* KLineVisualizer._has_independent_klines_between
HasIndependentKlinesBetween(fractal1, fractal2) ==
    LET lo == Min(fractal1.index, fractal2.index)
        hi == Max(fractal1.index, fractal2.index)
        fractal1_range == Max(0, fractal1.index - 1)..(fractal1.index + 1)
        fractal2_range == Max(0, fractal2.index - 1)..(fractal2.index + 1)
        independent_klines ==
            { k_index \in (lo + 1)..(hi - 1) :
                k_index \notin fractal1_range /\ k_index \notin fractal2_range }
    IN  IF hi - lo <= 2 THEN FALSE
        ELSE Cardinality(independent_klines) >= 1

\* Python's bool as it is returned to a caller outside the model.
PyBool(b) == IF b THEN "True" ELSE "False"

\* _has_independent_klines_between is called on its own and returns.
HasIndependentKlinesBetweenCall ==
    /\ ind_fractal1 # None
    /\ ind_ret = NoneStr
    /\ ind_ret' = PyBool(HasIndependentKlinesBetween(ind_fractal1, ind_fractal2))
    /\ UNCHANGED <<mergeVars, detectVars, selfVars, penVars, toolVars, trendVars, statsVars,
                   findVars, mergerDetectVars, ind_fractal1, ind_fractal2>>

RECURSIVE ScanPenEndAny(_, _, _, _, _)
\* Faulty variant: a candidate of the target type is accepted without the independence test
ScanPenEndAny(start_fractal, fs, j, target_type, last_valid_fractal) ==
    IF j > Len(fs) THEN last_valid_fractal
    ELSE LET candidate_fractal == fs[j]
         IN  IF candidate_fractal.type = target_type
             THEN ScanPenEndAny(start_fractal, fs, j + 1, target_type, candidate_fractal)
             ELSE IF candidate_fractal.type = start_fractal.type
             THEN IF last_valid_fractal # None THEN last_valid_fractal
                  ELSE ScanPenEndAny(start_fractal, fs, j + 1, target_type, last_valid_fractal)
             ELSE ScanPenEndAny(start_fractal, fs, j + 1, target_type, last_valid_fractal)

RECURSIVE ScanPenEndFirst(_, _, _, _, _)
\* Faulty variant: the scan stops at the first candidate with independent bars
ScanPenEndFirst(start_fractal, fs, j, target_type, last_valid_fractal) ==
    IF j > Len(fs) THEN last_valid_fractal
    ELSE LET candidate_fractal == fs[j]
         IN  IF candidate_fractal.type = target_type
             THEN IF HasIndependentKlinesBetween(start_fractal, candidate_fractal)
                  THEN candidate_fractal
                  ELSE ScanPenEndFirst(start_fractal, fs, j + 1, target_type, last_valid_fractal)
             ELSE IF candidate_fractal.type = start_fractal.type
             THEN IF last_valid_fractal # None THEN last_valid_fractal
                  ELSE ScanPenEndFirst(start_fractal, fs, j + 1, target_type, last_valid_fractal)
             ELSE ScanPenEndFirst(start_fractal, fs, j + 1, target_type, last_valid_fractal)

RECURSIVE ScanPenEnd(_, _, _, _, _)
\* KLineVisualizer._find_valid_pen_end, the for loop from list position j on.
ScanPenEnd(start_fractal, fs, j, target_type, last_valid_fractal) ==
    IF j > Len(fs) THEN last_valid_fractal
    ELSE LET candidate_fractal == fs[j]
         IN  IF candidate_fractal.type = target_type
             THEN IF HasIndependentKlinesBetween(start_fractal, candidate_fractal)
                  THEN ScanPenEnd(start_fractal, fs, j + 1, target_type, candidate_fractal)
                  ELSE ScanPenEnd(start_fractal, fs, j + 1, target_type, last_valid_fractal)
             ELSE IF candidate_fractal.type = start_fractal.type
             THEN IF last_valid_fractal # None THEN last_valid_fractal
                  ELSE ScanPenEnd(start_fractal, fs, j + 1, target_type, last_valid_fractal)
             ELSE ScanPenEnd(start_fractal, fs, j + 1, target_type, last_valid_fractal)

\* Faulty variant: the scan starts at the head of the list, not after the start
FindValidPenEndFromHead(start_fractal, fs, position, target_type) ==
    ScanPenEnd(start_fractal, fs, 1, target_type, None)

\* KLineVisualizer._find_valid_pen_end; position is the 1-based list position
\* of start_fractal (the source's start_index + 1).
FindValidPenEnd(start_fractal, fs, position, target_type) ==
    ScanPenEnd(start_fractal, fs, position + 1, target_type, None)

\* Faulty variant: the target type is the type of the start itself
TargetTypeSame(fractal) == fractal.type

\* calculate_pens: target_type = 'top' if <fractal>.type == 'bottom' else 'bottom'
TargetType(fractal) == IF fractal.type = "bottom" THEN "top" ELSE "bottom"

\* _find_valid_pen_end is called on its own, as calculate_pens calls it: with
\* the fractal at start_index and the other type as target, and returns.
FindValidPenEndCall ==
    /\ find_pc = "call"
    /\ find_ret' = FindValidPenEnd(find_fractals[find_start_index], find_fractals,
                                   find_start_index,
                                   TargetType(find_fractals[find_start_index]))
    /\ find_pc' = "done"
    /\ UNCHANGED <<mergeVars, detectVars, selfVars, penVars, toolVars, trendVars, statsVars,
                   indVars, mergerDetectVars, find_fractals, find_start_index>>

\* list.index: the first position holding the value.
ListIndex(fs, f) ==
    CHOOSE p \in 1..Len(fs) : fs[p] = f /\ \A q \in 1..(p - 1) : fs[q] # f

\* Faulty variant: the search gives up after a candidate without a valid end
FindStartBodyGiveUp(fs, position) ==
    LET candidate_start == fs[position]
        valid_end_fractal ==
            FindValidPenEnd(candidate_start, fs, position, TargetType(candidate_start))
    IN  IF valid_end_fractal # None
        THEN [found |-> TRUE, current_fractal |-> candidate_start, start_index |-> position]
        ELSE [found |-> FALSE, current_fractal |-> None, start_index |-> Len(fs) + 1]

\* calculate_pens, the body of the loop that looks for the first start.
FindStartBody(fs, position) ==
    LET candidate_start == fs[position]
        valid_end_fractal ==
            FindValidPenEnd(candidate_start, fs, position, TargetType(candidate_start))
    IN  IF valid_end_fractal # None
        THEN [found |-> TRUE, current_fractal |-> candidate_start, start_index |-> position]
        ELSE [found |-> FALSE, current_fractal |-> None, start_index |-> position + 1]

\* The first Fractal of a list whose type differs from the given one, or None.
FirstOfOtherType(fs, fractal_type) ==
    IF \E p \in 1..Len(fs) : fs[p].type # fractal_type
    THEN fs[CHOOSE p \in 1..Len(fs) :
                /\ fs[p].type # fractal_type
                /\ \A q \in 1..(p - 1) : fs[q].type = fractal_type]
    ELSE None

\* Faulty variant: the end of a new pen is not recorded as used
ChainBodyEndUnmarked(fs, current, pen_list, used) ==
    LET current_index == ListIndex(fs, current)
        valid_end_fractal == FindValidPenEnd(current, fs, current_index, TargetType(current))
        remaining_fractals ==
            SelectSeq(SubSeq(fs, current_index + 1, Len(fs)), LAMBDA f : f \notin used)
        new_start_fractal == FirstOfOtherType(remaining_fractals, current.type)
    IN  IF valid_end_fractal # None
        THEN [branch |-> "extend", current_fractal |-> valid_end_fractal,
              pens |-> Append(pen_list, Pen(current, valid_end_fractal)),
              used_fractals |-> used \cup {current}]
        ELSE IF new_start_fractal # None
        THEN [branch |-> "restart", current_fractal |-> new_start_fractal,
              pens |-> pen_list, used_fractals |-> used]
        ELSE [branch |-> "break", current_fractal |-> current,
              pens |-> pen_list, used_fractals |-> used]

\* Faulty variant: after a pen the chain goes on from the fractal after its start
ChainBodyStepByOne(fs, current, pen_list, used) ==
    LET current_index == ListIndex(fs, current)
        target_type == TargetType(current)
        valid_end_fractal == FindValidPenEnd(current, fs, current_index, target_type)
        remaining_fractals ==
            SelectSeq(SubSeq(fs, current_index + 1, Len(fs)), LAMBDA f : f \notin used)
        new_start_fractal == FirstOfOtherType(remaining_fractals, current.type)
    IN  IF valid_end_fractal # None
        THEN [branch |-> "extend", current_fractal |-> fs[current_index + 1],
              pens |-> Append(pen_list, Pen(current, valid_end_fractal)),
              used_fractals |-> (used \cup {current}) \cup {valid_end_fractal}]
        ELSE IF new_start_fractal # None
        THEN [branch |-> "restart", current_fractal |-> new_start_fractal,
              pens |-> pen_list, used_fractals |-> used]
        ELSE [branch |-> "break", current_fractal |-> current,
              pens |-> pen_list, used_fractals |-> used]

\* Faulty variant: a new start is looked for in the whole list, not after the current fractal
ChainBodyRestartAnywhere(fs, current, pen_list, used) ==
    LET current_index == ListIndex(fs, current)
        target_type == TargetType(current)
        valid_end_fractal == FindValidPenEnd(current, fs, current_index, target_type)
        remaining_fractals == SelectSeq(fs, LAMBDA f : f \notin used)
        new_start_fractal == FirstOfOtherType(remaining_fractals, current.type)
    IN  IF valid_end_fractal # None
        THEN [branch |-> "extend", current_fractal |-> valid_end_fractal,
              pens |-> Append(pen_list, Pen(current, valid_end_fractal)),
              used_fractals |-> (used \cup {current}) \cup {valid_end_fractal}]
        ELSE IF new_start_fractal # None
        THEN [branch |-> "restart", current_fractal |-> new_start_fractal,
              pens |-> pen_list, used_fractals |-> used]
        ELSE [branch |-> "break", current_fractal |-> current,
              pens |-> pen_list, used_fractals |-> used]

\* calculate_pens, the body of the loop that builds the chain of pens.
ChainBody(fs, current, pen_list, used) ==
    LET current_index == ListIndex(fs, current)
        target_type == TargetType(current)
        valid_end_fractal == FindValidPenEnd(current, fs, current_index, target_type)
        remaining_fractals ==
            SelectSeq(SubSeq(fs, current_index + 1, Len(fs)), LAMBDA f : f \notin used)
        new_start_fractal == FirstOfOtherType(remaining_fractals, current.type)
    IN  IF valid_end_fractal # None
        THEN [branch |-> "extend", current_fractal |-> valid_end_fractal,
              pens |-> Append(pen_list, Pen(current, valid_end_fractal)),
              used_fractals |-> (used \cup {current}) \cup {valid_end_fractal}]
        ELSE IF new_start_fractal # None
        THEN [branch |-> "restart", current_fractal |-> new_start_fractal,
              pens |-> pen_list, used_fractals |-> used]
        ELSE [branch |-> "break", current_fractal |-> current,
              pens |-> pen_list, used_fractals |-> used]

\* detect_fractals runs on its argument and stores the list in self.fractals.
DetectFractalsRun ==
    /\ dpc = "start"
    /\ self_fractals' = DetectFractals(merged_klines)
    /\ dpc' = "done"
    /\ UNCHANGED <<otherVars, mergeVars, merged_klines, self_pens, self_used_fractals, penVars>>

\* calculate_pens is entered: fewer than 2 fractals return [] at once,
\* otherwise the locals are set up for the search of the first start.
CalculatePensEnter ==
    /\ ppc = "enter"
    /\ IF Len(fractals) < 2
       THEN /\ ret' = <<>>
            /\ ppc' = "done"
            /\ UNCHANGED <<pens, used_fractals, start_index, current_fractal>>
       ELSE /\ pens' = <<>>
            /\ used_fractals' = {}
            /\ start_index' = 1
            /\ current_fractal' = None
            /\ ppc' = "find_start"
            /\ ret' = ret
    /\ UNCHANGED <<otherVars, mergeVars, detectVars, selfVars, fractals>>

\* One iteration of the search of the first start; found tells whether the
\* candidate has a valid end (the loop is then left by break).
FindStartStep(found) ==
    /\ ppc = "find_start"
    /\ start_index <= Len(fractals)
    /\ LET r == FindStartBody(fractals, start_index)
       IN  /\ r.found = found
           /\ current_fractal' = r.current_fractal
           /\ start_index' = r.start_index
           /\ ppc' = IF r.found THEN "chain" ELSE "find_start"
    /\ UNCHANGED <<otherVars, mergeVars, detectVars, selfVars, fractals, pens, used_fractals, ret>>

StartFound == FindStartStep(TRUE)

StartSkipped == FindStartStep(FALSE)

\* No fractal can start a pen: the empty results are stored and returned.
NoStartReturn ==
    /\ ppc = "find_start"
    /\ start_index > Len(fractals)
    /\ self_used_fractals' = used_fractals
    /\ self_pens' = pens
    /\ ret' = pens
    /\ ppc' = "done"
    /\ UNCHANGED <<otherVars, mergeVars, detectVars, self_fractals, fractals, pens, used_fractals,
                   start_index, current_fractal>>

\* One iteration of the chain loop that continues the loop.
ChainStep(branch) ==
    /\ ppc = "chain"
    /\ LET r == ChainBody(fractals, current_fractal, pens, used_fractals)
       IN  /\ r.branch = branch
           /\ current_fractal' = r.current_fractal
           /\ pens' = r.pens
           /\ used_fractals' = r.used_fractals
    /\ UNCHANGED <<otherVars, mergeVars, detectVars, selfVars, fractals, start_index, ppc, ret>>

\* A valid end is found: a pen is emitted and the chain goes on from its end.
ChainExtend == ChainStep("extend")

\* No valid end, but a later unused fractal of the other type: the chain restarts there.
ChainRestart == ChainStep("restart")

\* No valid end and no new start: the loop is left, the results are stored and returned.
ChainReturn ==
    /\ ppc = "chain"
    /\ ChainBody(fractals, current_fractal, pens, used_fractals).branch = "break"
    /\ self_used_fractals' = used_fractals
    /\ self_pens' = pens
    /\ ret' = pens
    /\ ppc' = "done"
    /\ UNCHANGED <<otherVars, mergeVars, detectVars, self_fractals, fractals, pens, used_fractals,
                   start_index, current_fractal>>

CalculatePensNext ==
    \/ CalculatePensEnter
    \/ StartFound
    \/ StartSkipped
    \/ NoStartReturn
    \/ ChainExtend
    \/ ChainRestart
    \/ ChainReturn

(***************************************************************************)
(* Inputs of the visualizer.                                               *)
(***************************************************************************)
\* The list of raw bars as merge_klines returns it when nothing is merged.
Unmerged(ks) == [j \in 1..Len(ks) |-> KlineToMerged(ks[j])]

\* bars is a list of at most maxLen compressed bars of count 1 in time order.
IsMergedKlineList(bars, maxLen, prices) ==
    \E len \in 0..maxLen : \E f \in [1..len -> KLines({0}, prices)] :
        bars = Unmerged(Timestamped(f))

\* Two fractals that follow each other in a list detect_fractals can return:
\* fractals whose bar indices differ by 1 or 2 are of different types (by
\* the strict comparisons of _detect_fractal_type).
CanFollow(f, g) == f.index < g.index /\ (g.index - f.index <= 2 => g.type # f.type)

\* The fractals that can follow the list l, with bar indices up to hi.
CanExtend(l, hi) ==
    { f \in [index : (IF l = <<>> THEN 1 ELSE l[Len(l)].index + 1)..hi,
             type : {"top", "bottom"}, price : TwoPrices] :
        l = <<>> \/ CanFollow(l[Len(l)], f) }

RECURSIVE FractalListsOfLen(_, _)
\* The lists of exactly n fractals with bar indices in 1..hi that
\* detect_fractals can return.
FractalListsOfLen(hi, n) ==
    IF n = 0 THEN {<<>>}
    ELSE UNION { { Append(l, f) : f \in CanExtend(l, hi) } : l \in FractalListsOfLen(hi, n - 1) }

\* The lists of at most maxLen fractals with bar indices in 1..hi.
FractalListsUpTo(hi, maxLen) == UNION { FractalListsOfLen(hi, n) : n \in 0..maxLen }

\* The inputs of repeated calls on one visualizer.
VisFractalLists == FractalListsUpTo(VisIndex, VisFractals)

\* The caller puts one more fractal on the list it will give to
\* calculate_pens, as detect_fractals does bar index after bar index.
AppendFractal ==
    /\ ppc = "input"
    /\ Len(fractals) < MaxFractals
    /\ \E f \in CanExtend(fractals, MaxIndex) : fractals' = Append(fractals, f)
    /\ UNCHANGED <<otherVars, mergeVars, detectVars, selfVars, pens, used_fractals, start_index,
                   current_fractal, ppc, ret>>

\* calculate_pens(fractals) is called with the list built.
CallWithList ==
    /\ ppc = "input"
    /\ ppc' = "enter"
    /\ UNCHANGED <<otherVars, mergeVars, detectVars, selfVars, fractals, pens, used_fractals,
                   start_index, current_fractal, ret>>

\* No call is in progress.
NoCallRunning == dpc \in {"idle", "done"} /\ ppc \in {"idle", "done"}

\* detect_fractals(bars) is called; the frame of an earlier calculate_pens call is gone.
CallDetectFractals ==
    /\ NoCallRunning
    /\ \E len \in 0..VisBars : \E f \in [1..len -> KLines({0}, TwoPrices)] :
           merged_klines' = Unmerged(Timestamped(f))
    /\ dpc' = "start"
    /\ fractals' = <<>>
    /\ pens' = <<>>
    /\ used_fractals' = {}
    /\ start_index' = 1
    /\ current_fractal' = None
    /\ ppc' = "idle"
    /\ ret' = <<>>
    /\ UNCHANGED <<otherVars, mergeVars, selfVars>>

\* A call of calculate_pens begins on the list fs; the frame of an earlier
\* detect_fractals call is gone.
BeginCalculatePens(fs) ==
    /\ fractals' = fs
    /\ pens' = <<>>
    /\ used_fractals' = {}
    /\ start_index' = 1
    /\ current_fractal' = None
    /\ ppc' = "enter"
    /\ ret' = <<>>
    /\ merged_klines' = <<>>
    /\ dpc' = "idle"
    /\ UNCHANGED <<otherVars, mergeVars, selfVars>>

\* calculate_pens(fractals) is called with a list.
CallCalculatePens ==
    /\ NoCallRunning
    /\ \E fs \in VisFractalLists : BeginCalculatePens(fs)

\* calculate_pens() is called without argument: it works on self.fractals.
CallCalculatePensDefault ==
    /\ NoCallRunning
    /\ BeginCalculatePens(self_fractals)

\* plot_klines: detect_fractals is called on the list merge_klines returned.
PassToDetectFractals ==
    /\ pc = "done"
    /\ dpc = "idle"
    /\ merged_klines' = merged_result
    /\ dpc' = "start"
    /\ UNCHANGED <<otherVars, mergeVars, selfVars, penVars>>

\* plot_klines: calculate_pens is called on the list detect_fractals returned.
PassToCalculatePens ==
    /\ dpc = "done"
    /\ ppc = "idle"
    /\ fractals' = self_fractals
    /\ ppc' = "enter"
    /\ UNCHANGED <<otherVars, mergeVars, detectVars, selfVars, pens, used_fractals,
                   start_index, current_fractal, ret>>

RECURSIVE TickWalks(_, _)
\* The price paths of n bars over the levels 1..levels in which every bar is
\* one level above or below the bar before it.
TickWalks(levels, n) ==
    IF n = 1 THEN { <<p>> : p \in 1..levels }
    ELSE UNION { { Append(w, q) : q \in {w[Len(w)] - 1, w[Len(w)] + 1} \cap (1..levels) } :
                 w \in TickWalks(levels, n - 1) }

\* ks is a list of at most maxLen raw bars in time order, each with high = low
\* one level away from the bar before it.
IsTickWalk(ks, maxLen, levels) ==
    \E n \in 1..maxLen : \E w \in TickWalks(levels, n) :
        ks = [j \in 1..n |-> [timestamp |-> j, high |-> w[j], low |-> w[j]]]

(***************************************************************************)
(* chan_kline_tool.py: the loaders.                                        *)
(*                                                                         *)
(* The loaders convert what they are given with float(), so the prices of  *)
(* a loaded bar are Python floats including nan.  A float is the record    *)
(* [nan, num]: num is the number when nan is FALSE.  A cell is what a      *)
(* record or row holds under 'high' or 'low': float() raises on it when    *)
(* convertible is FALSE (None, text) and returns value otherwise.          *)
(***************************************************************************)
Float(n) == [nan |-> FALSE, num |-> n]

NaN == [nan |-> TRUE, num |-> 0]

\* a < b on floats: false when either is nan.
FloatLess(a, b) == ~a.nan /\ ~b.nan /\ a.num < b.num

\* KLine.__post_init__ on floats: raises ValueError when self.high < self.low.
PostInitRaises(high, low) == FloatLess(high, low)

\* The cells a record can hold: a number, nan, or something float() refuses.
LoadCells ==
    { [convertible |-> TRUE, value |-> Float(p)] : p \in TwoPrices } \cup
    { [convertible |-> TRUE, value |-> NaN], [convertible |-> FALSE, value |-> NaN] }

\* The lists of at most maxLen records; the record at position j carries timestamp j.
RecordLists(maxLen) ==
    UNION { { [j \in 1..n |-> [timestamp |-> j, high |-> f[j].high, low |-> f[j].low]] :
                f \in [1..n -> [high : LoadCells, low : LoadCells]] } : n \in 0..maxLen }

\* load_from_data / load_from_excel, the body of the for loop: the record is
\* converted and appended, or skipped when float() or KLine() raises.
LoadItem(acc, item) ==
    IF ~item.high.convertible \/ ~item.low.convertible THEN acc
    ELSE IF PostInitRaises(item.high.value, item.low.value) THEN acc
    ELSE Append(acc, [timestamp |-> item.timestamp,
                      high |-> item.high.value, low |-> item.low.value])

RECURSIVE LoadItems(_, _, _)
\* load_from_data / load_from_excel, the for loop from position n on.
LoadItems(data, n, acc) ==
    IF n > Len(data) THEN acc ELSE LoadItems(data, n + 1, LoadItem(acc, data[n]))

\* ChanKLineTool.load_from_data(data); iterable is FALSE when data cannot be
\* enumerated (the outer except returns False and nothing is stored).
LoadFromData ==
    /\ \E iterable \in BOOLEAN : \E data \in RecordLists(LoadRows) :
           IF iterable
           THEN original_klines' = LoadItems(data, 1, <<>>) /\ load_ret' = "True"
           ELSE original_klines' = original_klines /\ load_ret' = "False"
    /\ UNCHANGED <<mergeVars, detectVars, selfVars, penVars, trendVars, statsVars, helperVars>>

\* ChanKLineTool.load_from_excel(file_path); readable is FALSE when
\* read_excel raises or a required column is missing (False is returned and
\* nothing is stored), rows are the rows of the sheet.
LoadFromExcel ==
    /\ \E readable \in BOOLEAN : \E rows \in RecordLists(LoadRows) :
           IF readable
           THEN original_klines' = LoadItems(rows, 1, <<>>) /\ load_ret' = "True"
           ELSE original_klines' = original_klines /\ load_ret' = "False"
    /\ UNCHANGED <<mergeVars, detectVars, selfVars, penVars, trendVars, statsVars, helperVars>>

(***************************************************************************)
(* chan_kline_tool.py: merging and statistics of the loaded bars.          *)
(*                                                                         *)
(* Here the records given to load_from_data hold numbers or something      *)
(* float() refuses, so every stored price is a number and the stored bars  *)
(* are given to merge_klines with their prices as numbers.                 *)
(***************************************************************************)
\* The cells of a record: a number, or something float() refuses.
NumberCells ==
    { [convertible |-> TRUE, value |-> Float(p)] : p \in TwoPrices } \cup
    { [convertible |-> FALSE, value |-> NaN] }

\* The lists of at most maxLen records of such cells; the record at position j
\* carries timestamp j.
NumberRecordLists(maxLen) ==
    UNION { { [j \in 1..n |-> [timestamp |-> j, high |-> f[j].high, low |-> f[j].low]] :
                f \in [1..n -> [high : NumberCells, low : NumberCells]] } : n \in 0..maxLen }

\* ChanKLineTool.load_from_data(data) on such records: self.original_klines
\* is replaced, self.merged_klines is not touched.
LoadNumbersFromData ==
    /\ \E iterable \in BOOLEAN : \E data \in NumberRecordLists(ToolRows) :
           IF iterable
           THEN original_klines' = LoadItems(data, 1, <<>>) /\ load_ret' = "True"
           ELSE original_klines' = original_klines /\ load_ret' = "False"
    /\ UNCHANGED <<mergeVars, detectVars, selfVars, penVars, trendVars, statsVars, helperVars>>

\* The stored bars as the merger reads them, their prices being numbers.
StoredKlines(bars) ==
    [j \in 1..Len(bars) |->
        [timestamp |-> bars[j].timestamp, high |-> bars[j].high.num, low |-> bars[j].low.num]]

\* ChanKLineTool.merge_klines: False without stored bars, self.merged_klines
\* being left as it is; otherwise the result of the merger is stored.
ToolMergeKlines ==
    /\ IF original_klines = <<>>
       THEN merge_ret' = "False" /\ tool_merged_klines' = tool_merged_klines
       ELSE /\ tool_merged_klines' = MergeKlines(StoredKlines(original_klines))
            /\ merge_ret' = "True"
    /\ UNCHANGED <<mergeVars, detectVars, selfVars, penVars, toolVars, trendVars, helperVars,
                   stats>>

RECURSIVE TotalMergedCount(_)
\* get_merge_statistics: sum(k.original_count for k in merged_klines)
TotalMergedCount(bars) ==
    IF bars = <<>> THEN 0 ELSE Head(bars).original_count + TotalMergedCount(Tail(bars))

\* KLineMerger.get_merge_statistics: the three counts of the returned dict
\* (the two ratios computed from them are not carried).
GetMergeStatistics(original, merged) ==
    [original_klines_count |-> Len(original),
     merged_klines_count |-> Len(merged),
     total_merged_count |-> TotalMergedCount(merged)]

\* The empty dict.
EmptyDict == [empty |-> TRUE]

\* ChanKLineTool.get_statistics as a function of the two stored lists.
GetStatistics(original, merged) ==
    IF original = <<>> \/ merged = <<>> THEN EmptyDict
    ELSE GetMergeStatistics(original, merged)

\* ChanKLineTool.get_statistics is called and returns.
GetStatisticsCall ==
    /\ stats' = GetStatistics(original_klines, tool_merged_klines)
    /\ UNCHANGED <<mergeVars, detectVars, selfVars, penVars, toolVars, trendVars, helperVars,
                   tool_merged_klines, merge_ret>>

(***************************************************************************)
(* Initial states and specifications.                                      *)
(***************************************************************************)
\* No merge_klines call was made.
MergeIdle ==
    /\ klines = <<>>
    /\ pc = "idle"
    /\ i = 1
    /\ current_merged = None
    /\ merged_result = <<>>

\* No detect_fractals call was made.
DetectIdle == merged_klines = <<>> /\ dpc = "idle"

\* No calculate_pens call was made.
PensIdle ==
    /\ fractals = <<>>
    /\ pens = <<>>
    /\ used_fractals = {}
    /\ start_index = 1
    /\ current_fractal = None
    /\ ppc = "idle"
    /\ ret = <<>>

\* KLineVisualizer.__init__; used_fractals does not exist yet and the
\* renderers read it with the default set().
VisualizerNew ==
    /\ self_fractals = <<>>
    /\ self_pens = <<>>
    /\ self_used_fractals = {}

\* ChanKLineTool.__init__; no method of the tool has returned yet.
ToolNew ==
    /\ original_klines = <<>>
    /\ load_ret = NoneStr
    /\ tool_merged_klines = <<>>
    /\ merge_ret = NoneStr
    /\ stats = None

\* No _determine_trend_direction call of its own was made.
TrendIdle ==
    /\ trend_current_k = None
    /\ trend_next_k = None
    /\ trend_merged = <<>>
    /\ trend_ret = NoneStr

\* No _has_independent_klines_between call of its own was made.
IndependentIdle ==
    /\ ind_fractal1 = None
    /\ ind_fractal2 = None
    /\ ind_ret = NoneStr

\* No _find_valid_pen_end call of its own was made.
FindEndIdle ==
    /\ find_fractals = <<>>
    /\ find_start_index = 1
    /\ find_pc = "idle"
    /\ find_ret = None

\* No KLineMerger._detect_fractals call of its own was made.
MergerDetectIdle == merger_fractals = <<>> /\ mdpc = "idle"

\* merge_klines is called; the argument is given by the specifications below.
MergeCalled ==
    /\ pc = "start"
    /\ i = 1
    /\ current_merged = None
    /\ merged_result = <<>>
    /\ DetectIdle
    /\ PensIdle
    /\ VisualizerNew
    /\ ToolNew
    /\ TrendIdle
    /\ IndependentIdle
    /\ FindEndIdle
    /\ MergerDetectIdle

MergeInit == IsOrderedKlineList(klines, MaxBars, 1..MaxPrice) /\ MergeCalled

\* merge_klines run once on each list of time-ordered raw bars.
SpecMerge == MergeInit /\ [][MergeNext]_vars

MergeTimeInit == IsKlineList(klines, TBars, 1..MaxTime, TwoPrices) /\ MergeCalled

\* merge_klines run once on each list of raw bars with arbitrary timestamps.
SpecMergeTime == MergeTimeInit /\ [][MergeNext]_vars

FractalsInit ==
    /\ MergeIdle
    /\ IsMergedKlineList(merged_klines, FBars, 1..FPrice)
    /\ dpc = "start"
    /\ PensIdle
    /\ VisualizerNew
    /\ ToolNew
    /\ TrendIdle
    /\ IndependentIdle
    /\ FindEndIdle
    /\ MergerDetectIdle

\* detect_fractals run once on each bar list, on a new visualizer.
SpecFractals == FractalsInit /\ [][DetectFractalsRun]_vars

PensInit ==
    /\ MergeIdle
    /\ DetectIdle
    /\ VisualizerNew
    /\ ToolNew
    /\ TrendIdle
    /\ IndependentIdle
    /\ FindEndIdle
    /\ MergerDetectIdle
    /\ fractals = <<>>
    /\ pens = <<>>
    /\ used_fractals = {}
    /\ start_index = 1
    /\ current_fractal = None
    /\ ppc = "input"
    /\ ret = <<>>

PensNext == AppendFractal \/ CallWithList \/ CalculatePensNext

\* calculate_pens(fractals) run once on each fractal list, on a new visualizer.
SpecPens == PensInit /\ [][PensNext]_vars

VisualizerInit ==
    MergeIdle /\ DetectIdle /\ PensIdle /\ VisualizerNew /\ ToolNew /\ TrendIdle
    /\ IndependentIdle /\ FindEndIdle /\ MergerDetectIdle

VisualizerNext ==
    \/ CallDetectFractals
    \/ DetectFractalsRun
    \/ CallCalculatePens
    \/ CallCalculatePensDefault
    \/ CalculatePensNext

\* Any sequence of detect_fractals and calculate_pens calls on one visualizer.
SpecVisualizer == VisualizerInit /\ [][VisualizerNext]_vars

PipelineInit ==
    /\ \/ IsOrderedKlineList(klines, PBars, 1..PPrice)
       \/ IsTickWalk(klines, PWalk, PLevels)
    /\ MergeCalled

PipelineNext ==
    \/ MergeNext
    \/ PassToDetectFractals
    \/ DetectFractalsRun
    \/ PassToCalculatePens
    \/ CalculatePensNext

TrendInit ==
    /\ MergeIdle
    /\ DetectIdle
    /\ PensIdle
    /\ VisualizerNew
    /\ ToolNew
    /\ IndependentIdle
    /\ FindEndIdle
    /\ MergerDetectIdle
    /\ trend_current_k \in TrendBarsOver(1..TrendPrice)
    /\ trend_next_k \in TrendBarsOver(1..TrendPrice)
    /\ \E n \in 0..TrendBars : trend_merged \in [1..n -> TrendBarsOver(1..TrendPrice)]
    /\ trend_ret = NoneStr

\* _determine_trend_direction called once on each triple of arguments.
SpecTrend == TrendInit /\ [][DetermineTrendDirectionCall]_vars

LoadInit == MergeIdle /\ DetectIdle /\ PensIdle /\ VisualizerNew /\ ToolNew /\ TrendIdle
    /\ IndependentIdle /\ FindEndIdle /\ MergerDetectIdle

LoadNext == LoadFromData \/ LoadFromExcel

\* Any sequence of load_from_data and load_from_excel calls on one tool.
SpecLoad == LoadInit /\ [][LoadNext]_vars

\* The fractals given to _has_independent_klines_between: any bar index from 0 on.
IndFractals == [index : 0..IndIndex, type : {"top", "bottom"}, price : {1}]

IndependentInit ==
    /\ MergeIdle /\ DetectIdle /\ PensIdle /\ VisualizerNew /\ ToolNew /\ TrendIdle
    /\ FindEndIdle /\ MergerDetectIdle
    /\ ind_fractal1 \in IndFractals
    /\ ind_fractal2 \in IndFractals
    /\ ind_ret = NoneStr

\* _has_independent_klines_between called once on each pair of fractals.
SpecIndependent == IndependentInit /\ [][HasIndependentKlinesBetweenCall]_vars

RECURSIVE IncreasingFractalLists(_, _)
\* The lists of exactly n fractals with increasing bar indices in 1..hi, of
\* any types and of one price (the searches of calculate_pens read no price).
IncreasingFractalLists(hi, n) ==
    IF n = 0 THEN {<<>>}
    ELSE UNION { { Append(l, f) :
                     f \in [index : (IF l = <<>> THEN 1 ELSE l[Len(l)].index + 1)..hi,
                            type : {"top", "bottom"}, price : {1}] } :
                 l \in IncreasingFractalLists(hi, n - 1) }

ToolInit == MergeIdle /\ DetectIdle /\ PensIdle /\ VisualizerNew /\ ToolNew /\ TrendIdle
    /\ IndependentIdle /\ FindEndIdle /\ MergerDetectIdle

ToolNext == LoadNumbersFromData \/ ToolMergeKlines \/ GetStatisticsCall

\* Any sequence of load_from_data, merge_klines and get_statistics calls on one tool.
SpecTool == ToolInit /\ [][ToolNext]_vars

DetectorsInit ==
    /\ MergeIdle
    /\ IsMergedKlineList(merged_klines, DBars, 1..DPrice)
    /\ dpc = "start"
    /\ PensIdle /\ VisualizerNew /\ ToolNew /\ TrendIdle /\ IndependentIdle /\ FindEndIdle
    /\ merger_fractals = <<>>
    /\ mdpc = "start"

DetectorsNext == DetectFractalsRun \/ MergerDetectFractalsRun

\* KLineMerger._detect_fractals and KLineVisualizer.detect_fractals each run
\* once on the same list of compressed bars, in either order.
SpecDetectors == DetectorsInit /\ [][DetectorsNext]_vars

ChainInit ==
    /\ MergeIdle /\ DetectIdle /\ VisualizerNew /\ ToolNew /\ TrendIdle
    /\ IndependentIdle /\ FindEndIdle /\ MergerDetectIdle
    /\ \E n \in 0..ChainFractals : fractals \in IncreasingFractalLists(ChainIndex, n)
    /\ pens = <<>>
    /\ used_fractals = {}
    /\ start_index = 1
    /\ current_fractal = None
    /\ ppc = "enter"
    /\ ret = <<>>

\* calculate_pens(fractals) called once on each fractal list and running to
\* its return: it is sequential code with no blocking step, so a step of it
\* that can be taken is taken.
SpecChain == ChainInit /\ [][CalculatePensNext]_vars /\ WF_vars(CalculatePensNext)

FindEndInit ==
    /\ MergeIdle /\ DetectIdle /\ PensIdle /\ VisualizerNew /\ ToolNew /\ TrendIdle
    /\ IndependentIdle /\ MergerDetectIdle
    /\ \E n \in 1..FindFractals : find_fractals \in IncreasingFractalLists(FindIndex, n)
    /\ find_start_index \in 1..Len(find_fractals)
    /\ find_pc = "call"
    /\ find_ret = None

\* _find_valid_pen_end called once on each fractal list and start position.
SpecFindEnd == FindEndInit /\ [][FindValidPenEndCall]_vars

\* The three stages run one after the other on a list of raw bars, each on
\* the list the stage before returned, with a new merger and a new visualizer.
SpecPipeline == PipelineInit /\ [][PipelineNext]_vars

(***************************************************************************)
(* Properties of the merge stage.                                          *)
(***************************************************************************)
RECURSIVE SumCounts(_)
\* sum(bar.original_count for bar in bars)
SumCounts(bars) ==
    IF bars = <<>> THEN 0 ELSE Head(bars).original_count + SumCounts(Tail(bars))

\* The inclusion predicate of the specification: the range of a encloses the range of b.
Encloses(a, b) == a.high >= b.high /\ a.low <= b.low

\* Position in the raw list of the first raw bar absorbed by the output bar at position j.
FirstRaw(bars, j) == 1 + SumCounts(SubSeq(bars, 1, j - 1))

\* The output fed back as raw bars, one raw bar per compressed bar.
AsRaw(bars) ==
    [j \in 1..Len(bars) |->
        [timestamp |-> bars[j].start_time, high |-> bars[j].high, low |-> bars[j].low]]

\* A second merge of the output changes nothing.
RerunUnchanged ==
    LET again == MergeKlines(AsRaw(merged_result))
    IN  /\ Len(again) = Len(merged_result)
        /\ \A j \in 1..Len(again) :
               /\ again[j].high = merged_result[j].high
               /\ again[j].low = merged_result[j].low
               /\ again[j].original_count = 1

SomeBarMerged == \E j \in 1..Len(merged_result) : merged_result[j].original_count >= 2

\* The step-by-step run and the function agree on the returned list.
MergeRunIsMergeKlines == pc = "done" => merged_result = MergeKlines(klines)

\* C1: the counts of the compressed bars returned by merge_klines sum to the
\* number of raw bars given to it.
C1_CountConservation == pc = "done" => SumCounts(merged_result) = Len(klines)

C1_Witness ==
    /\ pc = "done"
    /\ Len(klines) >= 3
    /\ Len(merged_result) >= 2
    /\ SomeBarMerged

\* C2 as stated: no two adjacent bars of the output satisfy either inclusion predicate.
C2_Original ==
    pc = "done" =>
        \A j \in 1..(Len(merged_result) - 1) :
            /\ ~Encloses(merged_result[j], merged_result[j + 1])
            /\ ~Encloses(merged_result[j + 1], merged_result[j])

\* C2 amended: no bar of the output encloses the raw bar that starts the next
\* output bar (the candidate that displaced it).
C2_NoBarEnclosesNextStart ==
    pc = "done" =>
        \A j \in 1..(Len(merged_result) - 1) :
            ~Encloses(merged_result[j], KlineToMerged(klines[FirstRaw(merged_result, j + 1)]))

C2_Witness ==
    /\ pc = "done"
    /\ \E j \in 1..(Len(merged_result) - 1) :
           /\ Encloses(merged_result[j], merged_result[j + 1])
           /\ merged_result[j + 1].original_count >= 2
    /\ \E j \in 1..(Len(merged_result) - 1) :
           Encloses(merged_result[j + 1], merged_result[j])

\* C3 as stated: merging the output of a merge again returns it unchanged.
C3_Original == pc = "done" => RerunUnchanged

\* C3 amended: merging the output again returns it unchanged exactly when no
\* output bar encloses its successor.
C3_IdempotentUnlessEnclosing ==
    pc = "done" =>
        (RerunUnchanged <=>
            \A j \in 1..(Len(merged_result) - 1) :
                ~Encloses(merged_result[j], merged_result[j + 1]))

C3_Witness ==
    /\ pc = "done"
    /\ Len(merged_result) >= 3
    /\ SomeBarMerged
    /\ RerunUnchanged
    /\ \E j \in 1..(Len(merged_result) - 1) :
           Encloses(merged_result[j + 1], merged_result[j])

\* C4 as stated: consecutive compressed bars never have the same high and the same low.
C4_Original ==
    pc = "done" =>
        \A j \in 1..(Len(merged_result) - 1) :
            ~(/\ merged_result[j].high = merged_result[j + 1].high
              /\ merged_result[j].low = merged_result[j + 1].low)

\* C4 amended: a compressed bar has the same high and low as its predecessor
\* only if it absorbed more than one raw bar.
C4_EqualOnlyAfterMerge ==
    pc = "done" =>
        \A j \in 1..(Len(merged_result) - 1) :
            (/\ merged_result[j].high = merged_result[j + 1].high
             /\ merged_result[j].low = merged_result[j + 1].low)
                => merged_result[j + 1].original_count >= 2

C4_Witness ==
    /\ pc = "done"
    /\ \E j \in 1..(Len(merged_result) - 1) :
           /\ merged_result[j].high = merged_result[j + 1].high
           /\ merged_result[j].low = merged_result[j + 1].low
           /\ merged_result[j + 1].original_count >= 2

StrictlyIncreasingTimes(ks) ==
    \A j \in 1..(Len(ks) - 1) : ks[j].timestamp < ks[j + 1].timestamp

\* C10: when the timestamps of the input are strictly increasing, the
\* compressed bars returned by merge_klines are strictly ordered by start_time.
C10_StartTimeOrdered ==
    (pc = "done" /\ StrictlyIncreasingTimes(klines)) =>
        \A j \in 1..(Len(merged_result) - 1) :
            merged_result[j].start_time < merged_result[j + 1].start_time

C10_Witness ==
    /\ pc = "done"
    /\ StrictlyIncreasingTimes(klines)
    /\ Len(merged_result) >= 2
    /\ SomeBarMerged

(***************************************************************************)
(* Properties of fractal detection and pen construction.                   *)
(***************************************************************************)
\* The bar with 0-based index p of a list.
BarAt(ks, p) == ks[p + 1]

\* Bar p is strictly above both neighbours in high and in low.
StrictTopAt(ks, p) ==
    /\ BarAt(ks, p).high > BarAt(ks, p - 1).high
    /\ BarAt(ks, p).high > BarAt(ks, p + 1).high
    /\ BarAt(ks, p).low > BarAt(ks, p - 1).low
    /\ BarAt(ks, p).low > BarAt(ks, p + 1).low

\* Bar p is strictly below both neighbours in high and in low.
StrictBottomAt(ks, p) ==
    /\ BarAt(ks, p).high < BarAt(ks, p - 1).high
    /\ BarAt(ks, p).high < BarAt(ks, p + 1).high
    /\ BarAt(ks, p).low < BarAt(ks, p - 1).low
    /\ BarAt(ks, p).low < BarAt(ks, p + 1).low

\* The independence predicate of the specification: the indices are more
\* than 2 apart and some index strictly between them lies outside both
\* occupied ranges [index-1, index+1].
Independent(f, g) ==
    LET lo == Min(f.index, g.index)
        hi == Max(f.index, g.index)
    IN  /\ hi - lo > 2
        /\ \E k \in (lo + 1)..(hi - 1) :
               /\ ~(f.index - 1 <= k /\ k <= f.index + 1)
               /\ ~(g.index - 1 <= k /\ k <= g.index + 1)

\* The start and end fractals of the pens of a list.
PenEndpoints(pen_list) ==
    { pen_list[j].start_fractal : j \in 1..Len(pen_list) } \cup
    { pen_list[j].end_fractal : j \in 1..Len(pen_list) }

\* C5: every pen emitted by calculate_pens joins a top and a bottom
\* (start.type differs from end.type), during the run and in the returned list.
C5_PenAlternation ==
    /\ \A j \in 1..Len(pens) :
           {pens[j].start_fractal.type, pens[j].end_fractal.type} = {"top", "bottom"}
    /\ \A j \in 1..Len(ret) :
           {ret[j].start_fractal.type, ret[j].end_fractal.type} = {"top", "bottom"}

C5_Witness ==
    /\ ppc = "done"
    /\ Len(ret) >= 2
    /\ ret[1].start_fractal.type = "bottom"
    /\ ret[2].start_fractal.type = "top"

\* C6: no pen returned by calculate_pens joins two fractals whose bar
\* indices are 2 or less apart; the two ends of every pen are independent.
C6_MinimumDistance ==
    \A j \in 1..Len(ret) :
        LET s == ret[j].start_fractal
            e == ret[j].end_fractal
        IN  /\ Max(s.index, e.index) - Min(s.index, e.index) > 2
            /\ Independent(s, e)

C6_Witness ==
    /\ ppc = "done"
    /\ \E j \in 1..Len(ret) : \E p \in 1..Len(fractals) :
           /\ fractals[p].type # ret[j].start_fractal.type
           /\ fractals[p].index > ret[j].start_fractal.index
           /\ fractals[p].index - ret[j].start_fractal.index <= 2

\* C7: detect_fractals returns, in strictly increasing index order, exactly
\* the indices 1..length-2 at which the bar is strictly above both
\* neighbours in high and low (top) or strictly below both in high and low
\* (bottom); a tie in any comparison gives no fractal, and fewer than 3 bars
\* give none.
C7_FractalDetection ==
    dpc = "done" =>
        LET n == Len(merged_klines)
            expected == { p \in 1..(n - 2) :
                            StrictTopAt(merged_klines, p) \/ StrictBottomAt(merged_klines, p) }
        IN  /\ \A j \in 1..(Len(self_fractals) - 1) :
                   self_fractals[j].index < self_fractals[j + 1].index
            /\ { self_fractals[j].index : j \in 1..Len(self_fractals) } = expected
            /\ \A j \in 1..Len(self_fractals) :
                   /\ self_fractals[j].type \in {"top", "bottom"}
                   /\ self_fractals[j].type = "top" <=>
                          StrictTopAt(merged_klines, self_fractals[j].index)
                   /\ self_fractals[j].type = "bottom" <=>
                          StrictBottomAt(merged_klines, self_fractals[j].index)
            /\ n < 3 => self_fractals = <<>>

C7_Witness ==
    /\ dpc = "done"
    /\ Len(merged_klines) = 4
    /\ Len(self_fractals) = 1
    /\ self_fractals[1].index = 1
    /\ self_fractals[1].type = "top"
    /\ BarAt(merged_klines, 2).high < BarAt(merged_klines, 1).high
    /\ BarAt(merged_klines, 2).high < BarAt(merged_klines, 3).high
    /\ BarAt(merged_klines, 2).low < BarAt(merged_klines, 1).low
    /\ BarAt(merged_klines, 2).low = BarAt(merged_klines, 3).low

\* C8 as stated: after calculate_pens is called with fewer than 2 fractals the
\* returned pens are empty, and so are the pens and the used-fractal set the
\* visualizer exposes, whatever was called on the visualizer before.
C8_NothingSurvivesShortCall ==
    (ppc = "done" /\ Len(fractals) < 2) =>
        /\ ret = <<>>
        /\ self_pens = <<>>
        /\ self_used_fractals = {}

\* C9: when calculate_pens has run on 2 or more fractals, the used-fractal
\* set it leaves is exactly the set of the starts and ends of the returned pens.
C9_UsedSetExact ==
    (ppc = "done" /\ Len(fractals) >= 2) =>
        /\ self_used_fractals = PenEndpoints(ret)
        /\ self_pens = ret

C9_Witness ==
    /\ ppc = "done"
    /\ Len(ret) >= 2
    /\ \E p \in 1..Len(fractals) : fractals[p] \notin self_used_fractals

\* The bar indices of the starts of the pens of a list do not decrease.
StartsNonDecreasing(pen_list) ==
    \A j \in 1..(Len(pen_list) - 1) :
        pen_list[j].start_fractal.index <= pen_list[j + 1].start_fractal.index

\* C11: the start indices of the pens built by calculate_pens are
\* non-decreasing along the list, during the run and in the returned list,
\* also when the chain restarts at a later fractal.
C11_PenStartsOrdered == StartsNonDecreasing(pens) /\ StartsNonDecreasing(ret)

C11_Witness ==
    /\ ppc = "done"
    /\ Len(ret) >= 2
    /\ \E j \in 1..(Len(ret) - 1) : ret[j].end_fractal # ret[j + 1].start_fractal

\* C15 as stated: in the list calculate_pens returns, the end fractal of each
\* pen is the start fractal of the next pen.
C15_PensContinuous ==
    ppc = "done" =>
        \A j \in 1..(Len(ret) - 1) : ret[j].end_fractal = ret[j + 1].start_fractal

\* C18: when the fractals given to calculate_pens are one top and one bottom,
\* bar indices 2 apart give no pen and an empty used set, and the bar indices
\* 1 and 5 give exactly one pen, from the fractal at index 1 to the fractal at
\* index 5, with direction "down" when the end price is not above the start
\* price and "up" when it is.
C18_TwoFractals ==
    (ppc = "done" /\ Len(fractals) = 2 /\ fractals[1].type # fractals[2].type) =>
        /\ fractals[2].index - fractals[1].index = 2 =>
               ret = <<>> /\ self_pens = <<>> /\ self_used_fractals = {}
        /\ (fractals[1].index = 1 /\ fractals[2].index = 5) =>
               /\ Len(ret) = 1
               /\ ret[1].start_fractal = fractals[1]
               /\ ret[1].end_fractal = fractals[2]
               /\ ret[1].direction =
                      IF fractals[2].price > fractals[1].price THEN "up" ELSE "down"

C18_Witness ==
    /\ ppc = "done"
    /\ Len(fractals) = 2
    /\ fractals[1].index = 1 /\ fractals[1].type = "top"
    /\ fractals[2].index = 5 /\ fractals[2].type = "bottom"
    /\ fractals[2].price = fractals[1].price
    /\ Len(ret) = 1
    /\ ret[1].direction = "down"

(***************************************************************************)
(* Further properties of the merge stage.                                  *)
(***************************************************************************)
NonDecreasingTimes(ks) ==
    \A j \in 1..(Len(ks) - 1) : ks[j].timestamp <= ks[j + 1].timestamp

\* The compressed bar b stands for the raw bars first..last of the input.
StandsFor(b, first, last) ==
    /\ b.high >= b.low
    /\ b.original_count >= 1
    /\ b.original_count = last - first + 1
    /\ b.start_time = klines[first].timestamp
    /\ b.end_time = klines[last].timestamp
    /\ \E p \in first..last : b.high = klines[p].high
    /\ \E p \in first..last : b.low = klines[p].low
    /\ NonDecreasingTimes(klines) => b.end_time >= b.start_time

\* C12: every compressed bar of merge_klines, finalized or current, has
\* high >= low and a count >= 1 that is the number of raw bars it absorbed (it
\* starts at its first and ends at its last raw bar), and end_time >=
\* start_time when the timestamps of the input do not decrease.
C12_CompressedBarInvariant ==
    /\ \A j \in 1..Len(merged_result) :
           StandsFor(merged_result[j], FirstRaw(merged_result, j),
                     FirstRaw(merged_result, j) + merged_result[j].original_count - 1)
    /\ pc = "loop" =>
           StandsFor(current_merged, FirstRaw(merged_result, Len(merged_result) + 1), i - 1)
    /\ pc = "done" => FirstRaw(merged_result, Len(merged_result) + 1) = Len(klines) + 1

C12_Witness ==
    /\ pc = "done"
    /\ NonDecreasingTimes(klines)
    /\ Len(merged_result) = 2
    /\ merged_result[2].original_count = 2
    /\ merged_result[2].end_time > merged_result[2].start_time
    /\ merged_result[2].high < merged_result[1].high

\* C16: in every iteration of the loop of merge_klines in which the candidate
\* contains the current bar and the current bar does not contain the
\* candidate, the current bar is appended unchanged to the output and the
\* candidate becomes the current bar with count 1; when the two bars have the
\* same high and low they are merged (nothing is appended, the counts add up).
C16_AsymmetricContainment ==
    [][(pc = "loop" /\ i <= Len(klines)) =>
          LET candidate == klines[i]
          IN  /\ (Encloses(candidate, current_merged) /\ ~Encloses(current_merged, candidate)) =>
                     /\ merged_result' = Append(merged_result, current_merged)
                     /\ current_merged' =
                            [start_time |-> candidate.timestamp, end_time |-> candidate.timestamp,
                             high |-> candidate.high, low |-> candidate.low, original_count |-> 1]
              /\ (candidate.high = current_merged.high /\ candidate.low = current_merged.low) =>
                     /\ merged_result' = merged_result
                     /\ current_merged'.high = current_merged.high
                     /\ current_merged'.low = current_merged.low
                     /\ current_merged'.original_count = current_merged.original_count + 1]_vars

C16_Witness ==
    /\ pc = "done"
    /\ \E j \in 1..(Len(merged_result) - 1) :
           LET candidate == klines[FirstRaw(merged_result, j + 1)]
           IN  /\ Encloses(candidate, merged_result[j])
               /\ ~Encloses(merged_result[j], candidate)
               /\ merged_result[j].original_count >= 2
               /\ merged_result[j + 1].original_count = 1

\* The example input [(h=10,l=8),(h=9,l=8.5)]: the code only compares and
\* selects prices, so the four prices 8 < 8.5 < 9 < 10 are the levels 1..4.
IsDefaultTrendExample ==
    /\ Len(klines) = 2
    /\ klines[1].high = 4 /\ klines[1].low = 1
    /\ klines[2].high = 3 /\ klines[2].low = 2

\* C17: every merge done while no bar has been finalized gives high = max of
\* the two highs and low = max of the two lows (trend Up), and the input
\* [(h=10,l=8),(h=9,l=8.5)] compresses to the single bar (h=10,l=8.5,count=2).
C17_DefaultTrendUp ==
    /\ [][(/\ pc = "loop"
           /\ i <= Len(klines)
           /\ merged_result = <<>>
           /\ Encloses(current_merged, klines[i])) =>
              /\ merged_result' = <<>>
              /\ current_merged'.high = Max(current_merged.high, klines[i].high)
              /\ current_merged'.low = Max(current_merged.low, klines[i].low)]_vars
    /\ []((pc = "done" /\ IsDefaultTrendExample) =>
              /\ Len(merged_result) = 1
              /\ merged_result[1].high = 4
              /\ merged_result[1].low = 2
              /\ merged_result[1].original_count = 2)

C17_Witness ==
    /\ pc = "done"
    /\ IsDefaultTrendExample
    /\ Len(merged_result) = 1
    /\ merged_result[1].low = 2

\* C19: in every iteration of the loop of merge_klines in which the current
\* bar contains the candidate, nothing is appended to the output and the
\* current bar becomes the merged bar: high and low are the max of the highs
\* and the max of the lows (trend up) or the min of the highs and the min of
\* the lows (trend down), start_time is that of the current bar, end_time that
\* of the candidate, the count is the sum of the counts; and no output bar
\* starts at a raw bar that another bar absorbed.
C19_MergeRule ==
    /\ [][(pc = "loop" /\ i <= Len(klines) /\ Encloses(current_merged, klines[i])) =>
             LET candidate == KlineToMerged(klines[i])
                 up == DetermineTrendDirection(current_merged, candidate, merged_result) = "up"
             IN  /\ merged_result' = merged_result
                 /\ current_merged'.high =
                        IF up THEN Max(current_merged.high, candidate.high)
                        ELSE Min(current_merged.high, candidate.high)
                 /\ current_merged'.low =
                        IF up THEN Max(current_merged.low, candidate.low)
                        ELSE Min(current_merged.low, candidate.low)
                 /\ current_merged'.start_time = current_merged.start_time
                 /\ current_merged'.end_time = candidate.end_time
                 /\ current_merged'.original_count =
                        current_merged.original_count + candidate.original_count]_vars
    /\ [](\A j \in 1..Len(merged_result) : \A k \in 1..Len(merged_result) :
             ~(/\ merged_result[j].start_time < merged_result[k].start_time
               /\ merged_result[k].start_time <= merged_result[j].end_time))

C19_Witness ==
    /\ pc = "done"
    /\ \E j \in 2..Len(merged_result) :
           LET first == klines[FirstRaw(merged_result, j)]
               second == klines[FirstRaw(merged_result, j) + 1]
           IN  /\ merged_result[j].original_count = 2
               /\ second.high < first.high
               /\ first.low < second.low
               /\ merged_result[j].high = second.high
               /\ merged_result[j].low = first.low

\* C20: with a non-empty list of finalized bars the direction returned by
\* _determine_trend_direction is "up" if current.high >= previous.high, else
\* "down" if current.low <= previous.low, else "up" if current.high >
\* previous.high and "down" otherwise, previous being the last finalized bar;
\* it is the same for every candidate.
C20_TrendRule ==
    (trend_ret # NoneStr /\ trend_merged # <<>>) =>
        LET current == trend_current_k
            previous == trend_merged[Len(trend_merged)]
        IN  /\ current.high >= previous.high => trend_ret = "up"
            /\ (current.high < previous.high /\ current.low <= previous.low) =>
                   trend_ret = "down"
            /\ (current.high < previous.high /\ current.low > previous.low) =>
                   trend_ret = (IF current.high > previous.high THEN "up" ELSE "down")

C20_Witness ==
    /\ trend_ret = "down"
    /\ Len(trend_merged) = 2
    /\ trend_current_k.high < trend_merged[2].high
    /\ trend_current_k.low <= trend_merged[2].low
    /\ trend_next_k.high >= trend_merged[2].high
    /\ trend_current_k.high >= trend_merged[1].high

\* Neither comparison of _determine_trend_direction holds for the arguments
\* of the call: the last finalized bar strictly encloses the current bar.
NeitherComparisonFires ==
    /\ trend_merged # <<>>
    /\ ~(trend_current_k.high >= trend_merged[Len(trend_merged)].high)
    /\ ~(trend_current_k.low <= trend_merged[Len(trend_merged)].low)

C25_FallbackUnreachable ==
    (pc = "loop" /\ merged_result # <<>>) =>
        \/ current_merged.high >= merged_result[Len(merged_result)].high
        \/ current_merged.low <= merged_result[Len(merged_result)].low

C25_Witness ==
    /\ pc = "loop"
    /\ merged_result # <<>>
    /\ current_merged.original_count >= 2
    /\ i <= Len(klines)
    /\ Encloses(current_merged, klines[i])
    /\ current_merged.high < merged_result[Len(merged_result)].high

(***************************************************************************)
(* Further properties of pen construction.                                 *)
(***************************************************************************)
\* The bar indices a fractal occupies, none below 0.
OccupiedRange(f) == { k \in (f.index - 1)..(f.index + 1) : k >= 0 }

\* |a - b|
Distance(a, b) == IF a >= b THEN a - b ELSE b - a

\* C22: _has_independent_klines_between(f1, f2) is false when the bar
\* indices are at most 2 apart, otherwise true iff some index strictly
\* between them lies outside both occupied ranges cut at 0; it is true
\* exactly when the indices are at least 4 apart, gives the same for
\* (f2, f1), and gives the same when the ranges are not cut at 0.
C22_IndependencePredicate ==
    ind_ret # NoneStr =>
        LET lo == Min(ind_fractal1.index, ind_fractal2.index)
            hi == Max(ind_fractal1.index, ind_fractal2.index)
        IN  /\ hi - lo <= 2 => ind_ret = "False"
            /\ hi - lo > 2 =>
                   ind_ret = PyBool(\E k \in (lo + 1)..(hi - 1) :
                                       /\ k \notin OccupiedRange(ind_fractal1)
                                       /\ k \notin OccupiedRange(ind_fractal2))
            /\ ind_ret = PyBool(Distance(ind_fractal1.index, ind_fractal2.index) >= 4)
            /\ ind_ret = PyBool(HasIndependentKlinesBetween(ind_fractal2, ind_fractal1))
            /\ ind_ret = PyBool(Independent(ind_fractal1, ind_fractal2))

C22_Witness ==
    /\ ind_ret = "True"
    /\ ind_fractal1.index = 0
    /\ ind_fractal2.index = 4

\* The list positions after p of the fractals of the other type that are
\* independent of the fractal at p.
IndependentTargets(fs, p) ==
    { q \in (p + 1)..Len(fs) : fs[q].type # fs[p].type /\ Independent(fs[p], fs[q]) }

\* The smallest and the largest member of a non-empty set of numbers.
Least(S) == CHOOSE m \in S : \A n \in S : m <= n
Greatest(S) == CHOOSE m \in S : \A n \in S : m >= n

\* The position where a scan from p stops: the first fractal of the type of
\* fs[p] after the first independent target, or past the end of the list.
StopPosition(fs, p) ==
    LET first == Least(IndependentTargets(fs, p))
        same == { q \in (first + 1)..Len(fs) : fs[q].type = fs[p].type }
    IN  IF same = {} THEN Len(fs) + 1 ELSE Least(same)

\* The end of a pen from fs[p] as the specification describes it.
ExpectedPenEnd(fs, p) ==
    IF IndependentTargets(fs, p) = {} THEN None
    ELSE fs[Greatest({ q \in IndependentTargets(fs, p) : q < StopPosition(fs, p) })]

\* C23: _find_valid_pen_end returns None iff no fractal of the target type
\* after the start is independent of the start; otherwise it returns the
\* last independent fractal of the target type before the first fractal of
\* the start's type that follows the first independent one.
C23_ValidEndSearch ==
    find_pc = "done" =>
        /\ find_ret = None <=> IndependentTargets(find_fractals, find_start_index) = {}
        /\ find_ret = ExpectedPenEnd(find_fractals, find_start_index)

C23_Witness ==
    /\ find_pc = "done"
    /\ find_ret # None
    /\ LET T == IndependentTargets(find_fractals, find_start_index)
           stop == StopPosition(find_fractals, find_start_index)
       IN  /\ \E q \in T : q > stop
           /\ \E q \in T : q < stop /\ find_fractals[q] # find_ret
           /\ \E q \in (find_start_index + 1)..(Least(T) - 1) :
                  find_fractals[q].type = find_fractals[find_start_index].type

\* calculate_pens is in its chain loop.
InChainLoop == ppc = "chain"

\* The list position of the current fractal of the chain loop.
CurrentPosition == ListIndex(fractals, current_fractal)

\* C26: an iteration of the chain loop of calculate_pens either appends one
\* pen and moves the current fractal to a later list position, or leaves the
\* pens and moves the current fractal to a later list position, or ends the
\* loop; so the loop makes at most one iteration per fractal, and a call of
\* calculate_pens always returns.
C26_ChainTerminates ==
    /\ [][InChainLoop =>
             \/ ppc' = "done" /\ ret' = pens
             \/ /\ InChainLoop'
                /\ ListIndex(fractals, current_fractal') > CurrentPosition
                /\ CurrentPosition <= Len(fractals)
                /\ \/ pens' = pens
                   \/ /\ Len(pens') = Len(pens) + 1
                      /\ SubSeq(pens', 1, Len(pens)) = pens
                      /\ pens'[Len(pens')].end_fractal = current_fractal']_vars
    /\ (ppc \in {"enter", "find_start", "chain"}) ~> (ppc = "done")

C26_Witness ==
    /\ ppc = "done"
    /\ Len(fractals) = 4
    /\ Len(ret) = 2
    /\ ret[1].end_fractal = fractals[2]
    /\ ret[2].start_fractal = fractals[3]

\* Consecutive pens of a list do not overlap: a pen ends at or before the
\* bar index where the next one starts.
NoOverlap(pen_list) ==
    \A j \in 1..(Len(pen_list) - 1) :
        pen_list[j].end_fractal.index <= pen_list[j + 1].start_fractal.index

\* C27: consecutive pens in the list calculate_pens returns do not overlap,
\* and no fractal is the start of two pens or the end of two pens of it.
C27_PensNeverOverlap ==
    /\ NoOverlap(pens)
    /\ NoOverlap(ret)
    /\ \A j, k \in 1..Len(ret) :
           j # k => /\ ret[j].start_fractal # ret[k].start_fractal
                    /\ ret[j].end_fractal # ret[k].end_fractal

C27_Witness ==
    /\ ppc = "done"
    /\ Len(ret) = 2
    /\ ret[1].end_fractal.index < ret[2].start_fractal.index
    /\ ret[2].start_fractal.price # ret[2].end_fractal.price

\* The list positions of the fractals given to calculate_pens from which a
\* pen has an end.
StartsWithEnd == { p \in 1..Len(fractals) : ExpectedPenEnd(fractals, p) # None }

\* C24: calculate_pens returns no pen iff no fractal of the list has a valid
\* end; otherwise the first pen starts at the fractal with the lowest list
\* position that has one and ends at the valid end of that fractal.
C24_ChainStart ==
    ppc = "done" =>
        /\ ret = <<>> <=> StartsWithEnd = {}
        /\ ret # <<>> =>
               /\ ret[1].start_fractal = fractals[Least(StartsWithEnd)]
               /\ ret[1].end_fractal = ExpectedPenEnd(fractals, Least(StartsWithEnd))

C24_Witness ==
    /\ ppc = "done"
    /\ ret # <<>>
    /\ ret[1].start_fractal # fractals[1]
    /\ ret[1].end_fractal = fractals[Len(fractals)]
    /\ Len(fractals) = 4

\* C28: on the same list of compressed bars, KLineMerger._detect_fractals and
\* KLineVisualizer.detect_fractals report the same bar indices with the same
\* types, in the same order.
C28_DetectorsAgree ==
    (dpc = "done" /\ mdpc = "done") =>
        /\ Len(merger_fractals) = Len(self_fractals)
        /\ \A j \in 1..Len(merger_fractals) :
               /\ merger_fractals[j][1] = self_fractals[j].index
               /\ merger_fractals[j][2] = self_fractals[j].type

C28_Witness ==
    /\ dpc = "done"
    /\ mdpc = "done"
    /\ \E j, k \in 1..Len(merger_fractals) :
           merger_fractals[j][2] = "top" /\ merger_fractals[k][2] = "bottom"

\* C29: in the list detect_fractals returns, fractals at adjacent bar
\* indices are one top and one bottom, and no bar index occurs twice.
C29_AdjacentFractalsAlternate ==
    dpc = "done" =>
        \A j, k \in 1..Len(self_fractals) :
            /\ self_fractals[k].index = self_fractals[j].index + 1 =>
                   {self_fractals[j].type, self_fractals[k].type} = {"top", "bottom"}
            /\ j # k => self_fractals[j].index # self_fractals[k].index

C29_Witness ==
    /\ dpc = "done"
    /\ Len(self_fractals) = 3
    /\ self_fractals[2].index = self_fractals[1].index + 1
    /\ self_fractals[3].index = self_fractals[2].index + 1

(***************************************************************************)
(* Properties of the whole pipeline.                                       *)
(***************************************************************************)
\* C13: zero raw bars give an empty list at every stage and one raw bar
\* gives one compressed bar with count 1, no fractal and no pen; on these
\* inputs every stage runs to its return.
C13_DegenerateInput ==
    Len(klines) <= 1 =>
        /\ pc = "done" =>
               IF klines = <<>> THEN merged_result = <<>>
               ELSE /\ Len(merged_result) = 1
                    /\ merged_result[1].original_count = 1
                    /\ merged_result[1].high = klines[1].high
                    /\ merged_result[1].low = klines[1].low
                    /\ merged_result[1].start_time = klines[1].timestamp
                    /\ merged_result[1].end_time = klines[1].timestamp
        /\ dpc = "done" => merged_klines = merged_result /\ self_fractals = <<>>
        /\ ppc = "done" => fractals = <<>> /\ ret = <<>> /\ self_pens = <<>>
        /\ ppc = "done" \/ ENABLED PipelineNext

C13_Witness ==
    /\ ppc = "done"
    /\ Len(klines) = 1
    /\ Len(merged_result) = 1
    /\ Len(merged_klines) = 1

(***************************************************************************)
(* Properties of the loaders.                                              *)
(***************************************************************************)
\* a >= b on floats: false when either is nan.
FloatGeq(a, b) == ~a.nan /\ ~b.nan /\ a.num >= b.num

\* C14 as stated: constructing a raw bar fails exactly when high < low (high =
\* low is accepted), and after any load_from_data or load_from_excel call
\* every bar of original_klines satisfies high >= low.
C14_LoadedBarsValid ==
    /\ \A h \in TwoPrices : \A l \in TwoPrices :
           PostInitRaises(Float(h), Float(l)) <=> h < l
    /\ \A j \in 1..Len(original_klines) :
           FloatGeq(original_klines[j].high, original_klines[j].low)

(***************************************************************************)
(* Properties of the tool.                                                 *)
(***************************************************************************)
\* C30 as stated: a non-empty result of get_statistics has a total absorbed
\* count equal to its count of original bars, and whenever get_statistics
\* would return a non-empty result the stored merged bars are the merge of
\* the stored original bars.
C30_StatisticsConsistent ==
    /\ stats \notin {None, EmptyDict} =>
           stats.total_merged_count = stats.original_klines_count
    /\ GetStatistics(original_klines, tool_merged_klines) # EmptyDict =>
           tool_merged_klines = MergeKlines(StoredKlines(original_klines))

====
